---- MODULE Spec2Model ----
(***************************************************************************)
(* A model of VCB01/logic.py, the logic core of the marble game: the       *)
(* GameLogic object (active balls, inventory, suction, delete zone), its   *)
(* public methods, and the simulation step.                                *)
(*                                                                         *)
(* Numbers.  The program computes in floats; the model computes in         *)
(* integers.  Positions, velocities, radii, distances and dt are whole     *)
(* units (pixels, pixels/second, seconds).  Fractions are fixed point:     *)
(* colours, hues and mix factors in hundredths (Centi), fall-off and       *)
(* damping factors in thousandths (Milli), mass in millionths.             *)
(* A quotient that is not a whole number of its unit is truncated toward   *)
(* zero.  Comparisons of distances are made on the squares, so they are    *)
(* exact.                                                                  *)
(*                                                                         *)
(* Dictionaries.  A Python dict keeps insertion order, and assigning to    *)
(* an existing key keeps the key's place.  _balls and _inventory are       *)
(* sequences of Ball records with pairwise distinct ids.                   *)
(***************************************************************************)
EXTENDS Integers, Sequences, FiniteSets, TLC

VARIABLES
    config,       \* the constructor's settings: world size, bounce, damping, mix rate, gravity
    delete_zone,  \* GameLogic.delete_zone, a Rect
    balls,        \* GameLogic._balls
    inventory,    \* GameLogic._inventory
    suction,      \* GameLogic._suction
    last,         \* the last call: its name, arguments, return value, and what step computed on the way
    captured_at,  \* history: the ids captured and still held, each placed by its most recent capture
    overrides,    \* history: for radius, strength and capture_radius, the last value a start_suction gave
    steps         \* history: the number of step calls with dt > 0 so far

vars == <<config, delete_zone, balls, inventory, suction, last, captured_at, overrides, steps>>

-----------------------------------------------------------------------------
(* Bounds of the model *)

\* step calls with dt > 0 in one behaviour
MaxSteps == 2

\* a step is taken only if it leaves every speed component within this
MaxSpeed == 400

-----------------------------------------------------------------------------
(* Units and program constants *)

Centi == 100
Milli == 1000

\* math.pi in thousandths
PiMilli == 3142

\* Suction's defaults
SuctionRadius == 160
SuctionStrength == 1200
SuctionCaptureRadius == 28

\* the side of the default delete zone
DeleteZoneSize == 120

\* the upper clamp of the two per-second rates, 5.0
MaxRate == 5

\* the per-step cap of the mix factor, 0.75, in hundredths
MixCap == 75

\* the saturation floor 0.35 and the value cap 0.92 of a mixed colour, in hundredths
SatFloor == 35
ValueCap == 92

\* Python's None, and a value that is given where None may be
None == <<>>
Some(x) == <<x>>
TheValue(opt) == opt[1]

-----------------------------------------------------------------------------
(* Arithmetic *)

Max(a, b) == IF a >= b THEN a ELSE b
Min(a, b) == IF a <= b THEN a ELSE b
Abs(a) == IF a < 0 THEN -a ELSE a

\* a / b truncated toward zero, b > 0
TDiv(a, b) == IF a >= 0 THEN a \div b ELSE -((-a) \div b)

Clamp(value, lo, hi) == Max(lo, Min(hi, value))

RECURSIVE SqrtBetween(_, _, _)
SqrtBetween(n, lo, hi) ==
    IF lo >= hi THEN lo
    ELSE LET mid == (lo + hi + 1) \div 2
         IN IF mid * mid <= n THEN SqrtBetween(n, mid, hi)
                              ELSE SqrtBetween(n, lo, mid - 1)

\* math.hypot, in whole units
Hypot(x, y) == SqrtBetween(x * x + y * y, 0, 2000)

\* math.hypot(x, y) <= bound, exactly
HypotLe(x, y, bound) == bound >= 0 /\ x * x + y * y <= bound * bound

RECURSIVE ExpSeries(_, _, _, _)
ExpSeries(x, term, n, acc) ==
    IF term = 0 THEN acc
    ELSE ExpSeries(x, (term * x) \div (Centi * (n + 1)), n + 1, acc + term)

\* math.exp(-x), x >= 0 in hundredths, the result in thousandths
ExpNeg(x) == (Milli * Milli) \div ExpSeries(x, Milli, 0, 0)

\* _normalize: the unit vector in thousandths, the zero vector for the zero vector
Normalize(vec) ==
    LET mag == Hypot(vec[1], vec[2])
    IN IF mag = 0 THEN <<0, 0>>
       ELSE <<TDiv(vec[1] * Milli, mag), TDiv(vec[2] * Milli, mag)>>

-----------------------------------------------------------------------------
(* Rect, Ball, Suction *)

Rect(x, y, width, height) == [x |-> x, y |-> y, width |-> width, height |-> height]

\* a contains_point that leaves the edges out
ContainsPointInside(rect, point) ==
    /\ rect.x < point[1] /\ point[1] < rect.x + rect.width
    /\ rect.y < point[2] /\ point[2] < rect.y + rect.height

ContainsPoint(rect, point) ==
    /\ rect.x <= point[1] /\ point[1] <= rect.x + rect.width
    /\ rect.y <= point[2] /\ point[2] <= rect.y + rect.height

\* Ball.__post_init__: the area, at least 1e-6, in millionths
Mass(radius) == Max(1, PiMilli * radius * radius * Milli)

NewBall(id, position, velocity, radius, color_rgb) ==
    [id |-> id, position |-> position, velocity |-> velocity, radius |-> radius,
     color_rgb |-> color_rgb, mass |-> Mass(radius)]

SuctionInit ==
    [is_active |-> FALSE, position |-> <<0, 0>>, radius |-> SuctionRadius,
     strength |-> SuctionStrength, capture_radius |-> SuctionCaptureRadius]

-----------------------------------------------------------------------------
(* Insertion-ordered dictionaries of balls *)

Keys(d) == {d[i].id : i \in DOMAIN d}

KeyList(d) == [i \in DOMAIN d |-> d[i].id]

Get(d, k) == d[CHOOSE i \in DOMAIN d : d[i].id = k]

\* d[ball.id] = ball
Put(d, ball) ==
    IF ball.id \in Keys(d)
    THEN [i \in DOMAIN d |-> IF d[i].id = ball.id THEN ball ELSE d[i]]
    ELSE Append(d, ball)

\* d.pop(k, None), the dictionary that is left
Pop(d, k) == SelectSeq(d, LAMBDA b : b.id # k)

Without(s, k) == SelectSeq(s, LAMBDA x : x # k)

-----------------------------------------------------------------------------
(* The inputs the model draws from *)

Red == <<100, 0, 0>>
Green == <<0, 100, 0>>
Blue == <<0, 0, 100>>

\* GameLogic(...) as called: rates in hundredths; a delete_zone of None asks for the default
Worlds ==
    { \* bouncing, under gravity
      [world_width |-> 400, world_height |-> 300, delete_zone |-> None,
       boundary_bounce |-> TRUE, linear_damping_per_second |-> 15,
       max_color_mix_factor_per_second |-> 85, gravity |-> <<0, 20>>],
      \* wrapping, no damping (a negative rate is clamped), no mixing
      [world_width |-> 400, world_height |-> 300, delete_zone |-> None,
       boundary_bounce |-> FALSE, linear_damping_per_second |-> -100,
       max_color_mix_factor_per_second |-> 0, gravity |-> <<0, 0>>] }

\* the ids callers pass, and the ids uuid4 can produce
CallerIds == {"a"}
GenIds == {"u1"}

\* add_ball calls
AddCalls ==
    { \* at rest, inside the default delete zone
      [ball_id |-> Some("a"), position |-> <<300, 200>>, velocity |-> <<0, 0>>,
       radius |-> 10, color_rgb |-> Red],
      \* leaving through the right and the top side
      [ball_id |-> Some("a"), position |-> <<395, 5>>, velocity |-> <<120, -90>>,
       radius |-> 10, color_rgb |-> Red],
      \* the same with a radius below zero
      [ball_id |-> Some("a"), position |-> <<395, 5>>, velocity |-> <<120, -90>>,
       radius |-> -10, color_rgb |-> Red],
      \* no id given; at rest, overlapping the first
      [ball_id |-> None, position |-> <<306, 200>>, velocity |-> <<0, 0>>,
       radius |-> 20, color_rgb |-> Blue] }

\* add_ball calls of one more ball, at rest, overlapping the two resting ones
CrowdCalls ==
    { [ball_id |-> Some("b"), position |-> <<310, 205>>, velocity |-> <<0, 0>>,
       radius |-> 10, color_rgb |-> Green] }

\* remove_ball and spit_specific ids: a caller's own, or one add_ball returned
CallIds == CallerIds \cup GenIds

\* set_delete_zone rects: one with the resting balls on its edges
Zones == { Rect(306, 200, 50, 50) }

\* start_suction calls; None leaves the parameter as it is
StartCalls ==
    { [position |-> <<300, 200>>, radius |-> None, strength |-> None,
       capture_radius |-> None],
      [position |-> <<300, 223>>, radius |-> Some(100), strength |-> Some(0),
       capture_radius |-> Some(5)] }

\* update_suction positions
UpdatePositions == { <<300, 223>> }

\* spit_next and spit_specific (position, direction, speed)
SpitCalls ==
    { \* leaving through the left and the bottom side
      [position |-> <<10, 295>>, direction |-> <<-3, 4>>, speed |-> 100],
      [position |-> <<300, 200>>, direction |-> <<0, 0>>, speed |-> 50] }

\* step's dt
Dts == {-1, 0, 1}

\* what a caller does to the list get_balls_snapshot returned: delete an element of the
\* list, or assign to an attribute of a Ball in it
SnapshotWrites ==
    { [attribute |-> "del", value |-> None],
      [attribute |-> "position", value |-> <<306, 200>>],
      [attribute |-> "velocity", value |-> <<0, 0>>],
      [attribute |-> "radius", value |-> Some(20)],
      [attribute |-> "color_rgb", value |-> Blue] }

-----------------------------------------------------------------------------
(* GameLogic.__init__ *)

GameLogicInit(args) ==
    [world_width |-> args.world_width,
     world_height |-> args.world_height,
     boundary_bounce |-> args.boundary_bounce,
     linear_damping_per_second |->
         Clamp(args.linear_damping_per_second, 0, MaxRate * Centi),
     max_color_mix_factor_per_second |->
         Clamp(args.max_color_mix_factor_per_second, 0, MaxRate * Centi),
     gravity |-> args.gravity]

DefaultDeleteZone(args) ==
    IF args.delete_zone # None THEN TheValue(args.delete_zone)
    ELSE Rect(args.world_width - DeleteZoneSize, args.world_height - DeleteZoneSize,
              DeleteZoneSize, DeleteZoneSize)

Call(op, args, ret, trace) == [op |-> op, args |-> args, ret |-> ret, trace |-> trace]

Init ==
    \E args \in Worlds :
        /\ config = GameLogicInit(args)
        /\ delete_zone = DefaultDeleteZone(args)
        /\ balls = <<>>
        /\ inventory = <<>>
        /\ suction = SuctionInit
        /\ last = Call("__init__", args, None, None)
        /\ captured_at = <<>>
        /\ overrides = [radius |-> None, strength |-> None, capture_radius |-> None]
        /\ steps = 0

-----------------------------------------------------------------------------
(* World and inventory management *)

\* ball_id or uuid.uuid4().hex: a fresh id when the caller gives none
AddIds(ball_id) ==
    IF ball_id = None \/ ball_id = Some("")
    THEN GenIds \ (Keys(balls) \cup Keys(inventory))
    ELSE {TheValue(ball_id)}

AddBallInto(d, bid, c) == Put(d, NewBall(bid, c.position, c.velocity, c.radius, c.color_rgb))

AddBall(c, bid) ==
    /\ balls' = AddBallInto(balls, bid, c)
    /\ last' = Call("add_ball", c, bid, None)
    /\ UNCHANGED <<config, delete_zone, inventory, suction, captured_at, overrides, steps>>

add_ball == \E c \in AddCalls : \E bid \in AddIds(c.ball_id) : AddBall(c, bid)

\* add_ball as the callers that crowd the world call it
add_ball_crowd ==
    \E c \in AddCalls \cup CrowdCalls : \E bid \in AddIds(c.ball_id) : AddBall(c, bid)

RemoveFrom(d, ball_id) == Pop(d, ball_id)

\* a remove_ball that also answers for the inventory
RemoveResultAnywhere(d, ball_id) == ball_id \in Keys(d) \cup Keys(inventory)

RemoveResult(d, ball_id) == ball_id \in Keys(d)

remove_ball ==
    \E ball_id \in CallIds :
        /\ balls' = RemoveFrom(balls, ball_id)
        /\ last' = Call("remove_ball", [ball_id |-> ball_id], RemoveResult(balls, ball_id), None)
        /\ UNCHANGED <<config, delete_zone, inventory, suction, captured_at, overrides, steps>>

\* list(self._balls.values()): a new list, of the Ball objects of _balls themselves
get_balls_snapshot ==
    /\ last' = Call("get_balls_snapshot", <<>>, balls, None)
    /\ UNCHANGED <<config, delete_zone, balls, inventory, suction, captured_at, overrides, steps>>

\* the balls of _balls after the write w to element i of the returned list: the list is
\* the caller's own, the Ball in it is the one _balls holds
Written(bs, i, w) ==
    CASE w.attribute = "del" -> bs
      [] w.attribute = "position" -> [bs EXCEPT ![i].position = w.value]
      [] w.attribute = "velocity" -> [bs EXCEPT ![i].velocity = w.value]
      [] w.attribute = "radius" -> [bs EXCEPT ![i].radius = TheValue(w.value)]
      [] w.attribute = "color_rgb" -> [bs EXCEPT ![i].color_rgb = w.value]

\* the caller writes to the list it has just been given
write_snapshot ==
    /\ last.op = "get_balls_snapshot"
    /\ \E i \in DOMAIN last.ret : \E w \in SnapshotWrites :
           /\ balls' = Written(balls, i, w)
           /\ last' = Call("write_snapshot", [index |-> i, write |-> w], None, None)
    /\ UNCHANGED <<config, delete_zone, inventory, suction, captured_at, overrides, steps>>

set_delete_zone ==
    \E rect \in Zones :
        /\ delete_zone' = rect
        /\ last' = Call("set_delete_zone", [rect |-> rect], None, None)
        /\ UNCHANGED <<config, balls, inventory, suction, captured_at, overrides, steps>>

-----------------------------------------------------------------------------
(* Suction control *)

\* the last value given: the new one unless it is None
Given(new, old) == IF new # None THEN new ELSE old

Override(new, old) == IF new # None THEN TheValue(new) ELSE old

StartSuction(s, c) ==
    [is_active |-> TRUE,
     position |-> c.position,
     radius |-> Override(c.radius, s.radius),
     strength |-> Override(c.strength, s.strength),
     capture_radius |-> Override(c.capture_radius, s.capture_radius)]

start_suction ==
    \E c \in StartCalls :
        /\ suction' = StartSuction(suction, c)
        /\ last' = Call("start_suction", c, None, None)
        /\ overrides' = [radius |-> Given(c.radius, overrides.radius),
                         strength |-> Given(c.strength, overrides.strength),
                         capture_radius |-> Given(c.capture_radius, overrides.capture_radius)]
        /\ UNCHANGED <<config, delete_zone, balls, inventory, captured_at, steps>>

\* an update_suction that repositions and switches on whatever the flag is
UpdateSuctionAlways(s, position) == [s EXCEPT !.is_active = TRUE, !.position = position]

UpdateSuction(s, position) ==
    IF ~s.is_active THEN s ELSE [s EXCEPT !.position = position]

update_suction ==
    \E position \in UpdatePositions :
        /\ suction' = UpdateSuction(suction, position)
        /\ last' = Call("update_suction", [position |-> position], None, None)
        /\ UNCHANGED <<config, delete_zone, balls, inventory, captured_at, overrides, steps>>

StopSuction(s) == [s EXCEPT !.is_active = FALSE]

stop_suction ==
    /\ suction' = StopSuction(suction)
    /\ last' = Call("stop_suction", <<>>, None, None)
    /\ UNCHANGED <<config, delete_zone, balls, inventory, captured_at, overrides, steps>>

-----------------------------------------------------------------------------
(* Spitting *)

\* direction normalized, times speed
SpitVelocity(direction, speed) ==
    LET d == Normalize(direction)
    IN <<TDiv(d[1] * speed, Milli), TDiv(d[2] * speed, Milli)>>

\* the ball as it is released: same id, radius, colour and mass
Released(ball, c) ==
    [ball EXCEPT !.position = c.position,
                 !.velocity = SpitVelocity(c.direction, c.speed)]

\* a spit_specific that searches the active set too
HeldOrActive(ball_id) == SelectSeq(inventory \o balls, LAMBDA b : b.id = ball_id)

\* self._inventory.pop(ball_id, None): the ball found, if any
Held(ball_id) == SelectSeq(inventory, LAMBDA b : b.id = ball_id)

\* next(iter(self._inventory.items())): the first ball, if any
NextHeld == IF inventory = <<>> THEN <<>> ELSE <<inventory[1]>>

\* self._balls[ball_id] = ball
SpitInto(d, ball, c) == Put(d, Released(ball, c))

SpitArgs(ball_id, c) ==
    [ball_id |-> ball_id, position |-> c.position, direction |-> c.direction,
     speed |-> c.speed]

spit_next ==
    \E c \in SpitCalls :
        IF NextHeld = <<>>
        THEN /\ last' = Call("spit_next", c, None, None)
             /\ UNCHANGED <<config, delete_zone, balls, inventory, suction, captured_at, overrides, steps>>
        ELSE LET ball == NextHeld[1]
             IN /\ inventory' = Pop(inventory, ball.id)
                /\ balls' = SpitInto(balls, ball, c)
                /\ captured_at' = Without(captured_at, ball.id)
                /\ last' = Call("spit_next", c, Some(ball.id), None)
                /\ UNCHANGED <<config, delete_zone, suction, overrides, steps>>

spit_specific ==
    \E ball_id \in CallIds : \E c \in SpitCalls :
        IF Held(ball_id) = <<>>
        THEN /\ last' = Call("spit_specific", SpitArgs(ball_id, c), FALSE, None)
             /\ UNCHANGED <<config, delete_zone, balls, inventory, suction, captured_at, overrides, steps>>
        ELSE LET ball == Held(ball_id)[1]
             IN /\ inventory' = Pop(inventory, ball_id)
                /\ balls' = SpitInto(balls, ball, c)
                /\ captured_at' = Without(captured_at, ball_id)
                /\ last' = Call("spit_specific", SpitArgs(ball_id, c), TRUE, None)
                /\ UNCHANGED <<config, delete_zone, suction, overrides, steps>>

-----------------------------------------------------------------------------
(* Colours: colorsys.rgb_to_hsv, colorsys.hsv_to_rgb, _angle_lerp,         *)
(* _mix_color_towards.  Channels, hue, saturation, value and t are in      *)
(* hundredths.                                                             *)

Max3(a, b, c) == Max(a, Max(b, c))
Min3(a, b, c) == Min(a, Min(b, c))

\* rgb_to_hsv once maxc and minc are known
HsvOf(r, g, b, maxc, minc) ==
    IF minc = maxc THEN <<0, 0, maxc>>
    ELSE LET rc == TDiv((maxc - r) * Centi, maxc - minc)
             gc == TDiv((maxc - g) * Centi, maxc - minc)
             bc == TDiv((maxc - b) * Centi, maxc - minc)
         IN <<TDiv(IF r = maxc THEN bc - gc
                   ELSE IF g = maxc THEN 2 * Centi + rc - bc
                   ELSE 4 * Centi + gc - rc, 6) % Centi,
              TDiv((maxc - minc) * Centi, maxc),
              maxc>>

RgbToHsv(rgb) ==
    HsvOf(rgb[1], rgb[2], rgb[3], Max3(rgb[1], rgb[2], rgb[3]), Min3(rgb[1], rgb[2], rgb[3]))

\* hsv_to_rgb once i and f are known; p, q, t as in the library
HsvSector(i, v, p, q, t) ==
    CASE i = 0 -> <<v, t, p>>
      [] i = 1 -> <<q, v, p>>
      [] i = 2 -> <<p, v, t>>
      [] i = 3 -> <<p, q, v>>
      [] i = 4 -> <<t, p, v>>
      [] i = 5 -> <<v, p, q>>

HsvParts(i, f, s, v) ==
    HsvSector(i % 6, v,
              TDiv(v * (Centi - s), Centi),
              TDiv(v * (Centi - TDiv(s * f, Centi)), Centi),
              TDiv(v * (Centi - TDiv(s * (Centi - f), Centi)), Centi))

HsvToRgb(h, s, v) ==
    IF s = 0 THEN <<v, v, v>>
    ELSE HsvParts((h * 6) \div Centi, (h * 6) % Centi, s, v)

\* the hue between a and b along the shorter arc; the factor 2*pi cancels
AngleLerp(a, b, t) ==
    (a + TDiv((((b - a + Centi \div 2) % Centi) - Centi \div 2) * Clamp(t, 0, Centi), Centi))
        % Centi

ClampRgb(rgb) == <<Clamp(rgb[1], 0, Centi), Clamp(rgb[2], 0, Centi), Clamp(rgb[3], 0, Centi)>>

\* _mix_color_towards once both colours are in hue, saturation, value
MixHsv(src, dst, t) ==
    ClampRgb(HsvToRgb(
        AngleLerp(src[1], dst[1], t),
        Clamp(TDiv((Centi - t) * src[2] + t * Max(src[2], dst[2]), Centi), SatFloor, Centi),
        Clamp(TDiv((Centi - t) * src[3] + t * dst[3], Centi), 0, ValueCap)))

MixColorTowards(src_rgb, dst_rgb, t) == MixHsv(RgbToHsv(src_rgb), RgbToHsv(dst_rgb), t)

-----------------------------------------------------------------------------
(* The simulation step, phase by phase *)

\* x / mass: x in thousandths, mass in millionths, the quotient in thousandths
DivByMass(x, mass) == TDiv(x * Milli, mass \div Milli)

\* the velocity after an acceleration of accel_mag (thousandths) toward the suction for dt
Accelerated(velocity, to_sx, to_sy, dist, accel_mag, dt) ==
    <<velocity[1] + TDiv(TDiv(to_sx * accel_mag, dist) * dt, Milli),
      velocity[2] + TDiv(TDiv(to_sy * accel_mag, dist) * dt, Milli)>>

\* strength * (falloff ** 2) / ball.mass, falloff = 1.0 - (dist / sr)
AccelMag(dist, mass) ==
    DivByMass(suction.strength *
                  TDiv((Milli - TDiv(dist * Milli, suction.radius)) *
                       (Milli - TDiv(dist * Milli, suction.radius)), Milli),
              mass)

PullFrom(ball, to_sx, to_sy, dt) ==
    IF HypotLe(to_sx, to_sy, suction.radius) /\ Hypot(to_sx, to_sy) > 0
    THEN [ball EXCEPT !.velocity =
              Accelerated(ball.velocity, to_sx, to_sy, Hypot(to_sx, to_sy),
                          AccelMag(Hypot(to_sx, to_sy), ball.mass), dt)]
    ELSE ball

\* the ball after the suction force has acted on its velocity for dt
Pull(ball, dt) ==
    PullFrom(ball, suction.position[1] - ball.position[1],
             suction.position[2] - ball.position[2], dt)

PullAll(bs, dt) ==
    IF suction.is_active THEN [i \in DOMAIN bs |-> Pull(bs[i], dt)] ELSE bs

Moved(ball, vx, vy, dt) ==
    [ball EXCEPT !.position = <<ball.position[1] + vx * dt, ball.position[2] + vy * dt>>,
                 !.velocity = <<vx, vy>>]

\* gravity, damping, and the move, before the boundary is looked at
Integrate(ball, dt) ==
    Moved(ball,
          TDiv((ball.velocity[1] + config.gravity[1] * dt)
                   * ExpNeg(config.linear_damping_per_second * dt), Milli),
          TDiv((ball.velocity[2] + config.gravity[2] * dt)
                   * ExpNeg(config.linear_damping_per_second * dt), Milli),
          dt)

\* a bounce that keeps the centre, not the whole ball, inside
BounceAxisCentre(p, v, radius, size) ==
    IF p < 0 THEN <<0, Abs(v)>>
    ELSE IF p > size THEN <<size, -Abs(v)>>
    ELSE <<p, v>>

\* one axis of the bouncing boundary: <<position, velocity>>
BounceAxis(p, v, radius, size) ==
    IF p - radius < 0 THEN <<radius, Abs(v)>>
    ELSE IF p + radius > size THEN <<size - radius, -Abs(v)>>
    ELSE <<p, v>>

\* a wrap that re-enters at the edge itself
WrapAxisToEdge(p, v, radius, size) ==
    IF p < -radius THEN <<size, v>>
    ELSE IF p > size + radius THEN <<0, v>>
    ELSE <<p, v>>

\* one axis of the wrapping boundary: <<position, velocity>>
WrapAxis(p, v, radius, size) ==
    IF p < -radius THEN <<size + radius, v>>
    ELSE IF p > size + radius THEN <<-radius, v>>
    ELSE <<p, v>>

Bounded(ball, x, y) ==
    [ball EXCEPT !.position = <<x[1], y[1]>>, !.velocity = <<x[2], y[2]>>]

Boundary(ball) ==
    IF config.boundary_bounce
    THEN Bounded(ball,
             BounceAxis(ball.position[1], ball.velocity[1], ball.radius, config.world_width),
             BounceAxis(ball.position[2], ball.velocity[2], ball.radius, config.world_height))
    ELSE Bounded(ball,
             WrapAxis(ball.position[1], ball.velocity[1], ball.radius, config.world_width),
             WrapAxis(ball.position[2], ball.velocity[2], ball.radius, config.world_height))

IntegrateAll(bs, dt) == [i \in DOMAIN bs |-> Integrate(bs[i], dt)]

BoundaryAll(bs) == [i \in DOMAIN bs |-> Boundary(bs[i])]

\* a capture test that looks at capture_radius alone
InCaptureRadius(ball) ==
    HypotLe(ball.position[1] - suction.position[1],
            ball.position[2] - suction.position[2],
            suction.capture_radius)

\* math.hypot(bx - sx, by - sy) <= max(capture_r, ball.radius * 0.8), in fifths
InCaptureRange(ball) ==
    HypotLe(5 * (ball.position[1] - suction.position[1]),
            5 * (ball.position[2] - suction.position[2]),
            Max(5 * suction.capture_radius, 4 * ball.radius))

\* to_capture
ToCapture(bs) ==
    IF suction.is_active
    THEN KeyList(SelectSeq(bs, InCaptureRange))
    ELSE <<>>

RECURSIVE PopAll(_, _)
PopAll(d, ids) == IF ids = <<>> THEN d ELSE PopAll(Pop(d, Head(ids)), Tail(ids))

RECURSIVE PutAll(_, _)
PutAll(d, bs) == IF bs = <<>> THEN d ELSE PutAll(Put(d, Head(bs)), Tail(bs))

RECURSIVE Requeue(_, _)
Requeue(q, ids) ==
    IF ids = <<>> THEN q ELSE Requeue(Append(Without(q, Head(ids)), Head(ids)), Tail(ids))

Overlap(a, b) ==
    HypotLe(a.position[1] - b.position[1], a.position[2] - b.position[2],
            a.radius + b.radius)

\* mix_t, in hundredths
MixT(dt) == Clamp(config.max_color_mix_factor_per_second * dt, 0, MixCap)

\* b.color_rgb = _mix_color_towards(b.color_rgb, a.color_rgb, t), a's colour being the new one
MixSecond(a_new, b_rgb, t) == <<a_new, MixColorTowards(b_rgb, a_new, t)>>

\* the two colours of a pair after its mix: a's, then b's
MixPair(a_rgb, b_rgb, t) == MixSecond(MixColorTowards(a_rgb, b_rgb, t), b_rgb, t)

\* itertools.combinations(range(i, n + 1), 2) with i first: the index pairs in order
RECURSIVE Combinations(_, _)
Combinations(i, n) ==
    IF i >= n THEN <<>>
    ELSE [k \in 1..(n - i) |-> <<i, i + k>>] \o Combinations(i + 1, n)

Recoloured(m, i, j, c) ==
    [balls |-> [m.balls EXCEPT ![i].color_rgb = c[1], ![j].color_rgb = c[2]],
     mixed_pairs |-> Append(m.mixed_pairs, <<m.balls[i].id, m.balls[j].id>>)]

\* one turn of the loop over the pairs: m is the balls and the pairs mixed so far
MixOne(m, pair, t) ==
    IF Overlap(m.balls[pair[1]], m.balls[pair[2]])
    THEN Recoloured(m, pair[1], pair[2],
                    MixPair(m.balls[pair[1]].color_rgb, m.balls[pair[2]].color_rgb, t))
    ELSE m

RECURSIVE MixEach(_, _, _)
MixEach(m, pairs, t) ==
    IF pairs = <<>> THEN m ELSE MixEach(MixOne(m, Head(pairs), t), Tail(pairs), t)

\* a mixing loop that runs whatever mix_t is
MixWithAlways(bs, t) ==
    MixEach([balls |-> bs, mixed_pairs |-> <<>>], Combinations(1, Len(bs)), t)

MixWith(bs, t) ==
    IF t > 0
    THEN MixEach([balls |-> bs, mixed_pairs |-> <<>>], Combinations(1, Len(bs)), t)
    ELSE [balls |-> bs, mixed_pairs |-> <<>>]

Mix(bs, dt) == MixWith(bs, MixT(dt))

InDeleteZone(ball) == ContainsPoint(delete_zone, ball.position)

\* to_delete
ToDelete(bs) == KeyList(SelectSeq(bs, InDeleteZone))

Members(ids) == {ids[i] : i \in DOMAIN ids}

\* the state and the lists when the step returns
Outcome(moved, to_capture, mixed, to_delete) ==
    [balls |-> PopAll(mixed.balls, to_delete),
     inventory |-> PutAll(inventory, SelectSeq(moved, LAMBDA b : b.id \in Members(to_capture))),
     mixed_pairs |-> mixed.mixed_pairs,
     deleted_ball_ids |-> to_delete,
     captured_ball_ids |-> to_capture]

AfterMix(moved, to_capture, mixed) ==
    Outcome(moved, to_capture, mixed, ToDelete(mixed.balls))

\* a step that mixes the colours before it takes the captured balls out
CapturedAfterMix(m, to_capture) ==
    [balls |-> PopAll(m.balls, to_capture), mixed_pairs |-> m.mixed_pairs]

AfterCaptureMixFirst(moved, to_capture, dt) ==
    AfterMix(moved, to_capture, CapturedAfterMix(Mix(moved, dt), to_capture))

AfterCapture(moved, to_capture, dt) ==
    AfterMix(moved, to_capture, Mix(PopAll(moved, to_capture), dt))

\* a step that sweeps the delete zone before it captures
DeletedThenCaptured(moved, kept, dt) ==
    [balls |-> Mix(PopAll(kept, ToCapture(kept)), dt).balls,
     inventory |-> PutAll(inventory, SelectSeq(kept, LAMBDA b : b.id \in Members(ToCapture(kept)))),
     mixed_pairs |-> Mix(PopAll(kept, ToCapture(kept)), dt).mixed_pairs,
     deleted_ball_ids |-> ToDelete(moved),
     captured_ball_ids |-> ToCapture(kept)]

AfterMotionDeleteFirst(moved, dt) ==
    DeletedThenCaptured(moved, PopAll(moved, ToDelete(moved)), dt)

\* what step does after the move: capture, then mix, then delete
AfterMotion(moved, dt) == AfterCapture(moved, ToCapture(moved), dt)

StepResult(dt, mixed_pairs, deleted, captured, released) ==
    [time_advanced_s |-> dt, mixed_pairs |-> mixed_pairs, deleted_ball_ids |-> deleted,
     captured_ball_ids |-> captured, released_ball_ids |-> released]

\* dt = max(0.0, float(dt))
ClampDt(dt) == Max(0, dt)

\* every speed the step computes is within the model's range
InRange(bs) ==
    \A i \in DOMAIN bs : Abs(bs[i].velocity[1]) <= MaxSpeed /\ Abs(bs[i].velocity[2]) <= MaxSpeed

\* the balls after the suction phase, after the integration, and after the boundary
Motion(pulled, integrated) ==
    [pulled |-> pulled, integrated |-> integrated, moved |-> BoundaryAll(integrated)]

MotionOf(pulled, dt) == Motion(pulled, IntegrateAll(pulled, dt))

StepReturns(dt0, dt, m, after) ==
    /\ balls' = after.balls
    /\ inventory' = after.inventory
    /\ captured_at' = Requeue(captured_at, after.captured_ball_ids)
    /\ steps' = steps + 1
    /\ last' = Call("step", [dt |-> dt0],
                    StepResult(dt, after.mixed_pairs, after.deleted_ball_ids,
                               after.captured_ball_ids, <<>>),
                    [integrated |-> m.integrated, moved |-> m.moved])
    /\ UNCHANGED <<config, delete_zone, suction, overrides>>

StepMoves(dt0, dt, m) ==
    /\ steps < MaxSteps
    /\ InRange(m.pulled)
    /\ InRange(m.integrated)
    /\ StepReturns(dt0, dt, m, AfterMotion(m.moved, dt))

\* a step without the early return for dt = 0
StepByAlways(dt0, dt) == StepMoves(dt0, dt, MotionOf(PullAll(balls, dt), dt))

StepBy(dt0, dt) ==
    IF dt = 0
    THEN /\ last' = Call("step", [dt |-> dt0], StepResult(dt, <<>>, <<>>, <<>>, <<>>), None)
         /\ UNCHANGED <<config, delete_zone, balls, inventory, suction, captured_at, overrides, steps>>
    ELSE StepMoves(dt0, dt, MotionOf(PullAll(balls, dt), dt))

step == \E dt0 \in Dts : StepBy(dt0, ClampDt(dt0))

-----------------------------------------------------------------------------

Next ==
    \/ add_ball
    \/ remove_ball
    \/ get_balls_snapshot
    \/ set_delete_zone
    \/ start_suction
    \/ update_suction
    \/ stop_suction
    \/ spit_next
    \/ spit_specific
    \/ step

Spec == Init /\ [][Next]_vars

\* callers that also write to the snapshots they take
SnapshotNext ==
    \/ add_ball
    \/ remove_ball
    \/ get_balls_snapshot
    \/ write_snapshot
    \/ step

SnapshotSpec == Init /\ [][SnapshotNext]_vars

\* callers that crowd the world with three balls and let them mix
CrowdNext ==
    \/ add_ball_crowd
    \/ set_delete_zone
    \/ start_suction
    \/ step

CrowdSpec == Init /\ [][CrowdNext]_vars

-----------------------------------------------------------------------------
(* The claims *)

Stepped == last.op = "step" /\ last.ret.time_advanced_s > 0

\* the capture test of the spec: distance <= max(capture_radius, 0.8 * radius)
WithinCaptureThreshold(b) ==
    LET dx == b.position[1] - suction.position[1]
        dy == b.position[2] - suction.position[2]
        cr == suction.capture_radius
    IN \/ cr >= 0 /\ dx * dx + dy * dy <= cr * cr
       \/ b.radius >= 0 /\ 25 * (dx * dx + dy * dy) <= 16 * b.radius * b.radius

\* the delete test of the spec: the centre in the rectangle, edges included
CentreInZone(b) ==
    /\ delete_zone.x <= b.position[1]
    /\ b.position[1] <= delete_zone.x + delete_zone.width
    /\ delete_zone.y <= b.position[2]
    /\ b.position[2] <= delete_zone.y + delete_zone.height

\* C1: no ball id is a key of both the active set and the inventory.
C1_NoSharedId == Keys(balls) \cap Keys(inventory) = {}

\* C2: step(dt) with dt <= 0 returns time_advanced_s = 0 and four empty lists,
\* and changes neither a ball, nor the active set, nor the inventory, nor the suction.
C2_ZeroStepChangesNothing ==
    [][(last'.op = "step" /\ last'.args.dt <= 0)
         => /\ last'.ret.time_advanced_s = 0
            /\ last'.ret.mixed_pairs = <<>>
            /\ last'.ret.deleted_ball_ids = <<>>
            /\ last'.ret.captured_ball_ids = <<>>
            /\ last'.ret.released_ball_ids = <<>>
            /\ balls' = balls
            /\ inventory' = inventory
            /\ suction' = suction]_vars

\* a step of dt < 0 was taken with the suction on, over a ball that lies in the delete zone
C2_Witness ==
    /\ last.op = "step" /\ last.args.dt < 0
    /\ suction.is_active
    /\ \E i \in DOMAIN balls : WithinCaptureThreshold(balls[i]) /\ CentreInZone(balls[i])

\* C3: in a step with dt > 0 and the suction on, a ball that after its move is both in
\* the delete zone and within the capture threshold is in captured_ball_ids, not in
\* deleted_ball_ids, in the inventory, and not in the active set.
C3_CaptureBeforeDelete ==
    (Stepped /\ suction.is_active) =>
        \A i \in DOMAIN last.trace.moved :
            LET b == last.trace.moved[i]
            IN (CentreInZone(b) /\ WithinCaptureThreshold(b))
                   => /\ b.id \in Members(last.ret.captured_ball_ids)
                      /\ b.id \notin Members(last.ret.deleted_ball_ids)
                      /\ b.id \in Keys(inventory)
                      /\ b.id \notin Keys(balls)

C3_Witness ==
    /\ Stepped /\ suction.is_active
    /\ \E i \in DOMAIN last.trace.moved :
           /\ CentreInZone(last.trace.moved[i])
           /\ WithinCaptureThreshold(last.trace.moved[i])
           /\ last.trace.moved[i].id \in Keys(inventory)

\* C4: spit_next returns None exactly when the inventory is empty, changing nothing;
\* otherwise it returns the id whose most recent capture is the earliest among the
\* ids the inventory holds.
C4_SpitNextIsFifo ==
    [][last'.op = "spit_next"
         => IF inventory = <<>>
            THEN last'.ret = None /\ balls' = balls /\ inventory' = inventory
            ELSE last'.ret = Some(Head(captured_at))]_vars

\* C5: with boundary_bounce on, after a step with dt > 0 every ball that took part in
\* it with radius <= min(world_width, world_height) / 2 lies with its whole disc in
\* the world.
InsideWorld(b) ==
    /\ b.radius <= b.position[1] /\ b.position[1] <= config.world_width - b.radius
    /\ b.radius <= b.position[2] /\ b.position[2] <= config.world_height - b.radius

Fits(b) == 2 * b.radius <= Min(config.world_width, config.world_height)

C5_BounceKeepsBallsInside ==
    (Stepped /\ config.boundary_bounce) =>
        \A i \in DOMAIN last.trace.moved :
            LET b == last.trace.moved[i]
            IN Fits(b) =>
                  /\ InsideWorld(b)
                  /\ b.id \in Keys(balls) => InsideWorld(Get(balls, b.id))
                  /\ b.id \in Members(last.ret.captured_ball_ids)
                         => InsideWorld(Get(inventory, b.id))

\* a ball that the integration had put beyond the right and the top side
C5_Witness ==
    /\ Stepped /\ config.boundary_bounce
    /\ \E i \in DOMAIN last.trace.moved :
           LET b == last.trace.integrated[i]
           IN /\ Fits(b)
              /\ b.position[1] + b.radius > config.world_width
              /\ b.position[2] - b.radius < 0
              /\ last.trace.moved[i].id \in Keys(balls)

\* C6: in wrap mode a ball whose integrated x exceeds world_width + radius is at
\* x = -radius after the step, one whose integrated x is below -radius is at
\* world_width + radius, the same on the y axis, and the wrap leaves the integrated
\* velocity as it is.
C6_WrapTeleports ==
    (Stepped /\ ~config.boundary_bounce) =>
        \A i \in DOMAIN last.trace.moved :
            LET b == last.trace.integrated[i]
                m == last.trace.moved[i]
            IN /\ b.position[1] > config.world_width + b.radius => m.position[1] = -b.radius
               /\ b.position[1] < -b.radius => m.position[1] = config.world_width + b.radius
               /\ b.position[2] > config.world_height + b.radius => m.position[2] = -b.radius
               /\ b.position[2] < -b.radius => m.position[2] = config.world_height + b.radius
               /\ m.velocity = b.velocity
               /\ b.id \in Keys(balls) =>
                      /\ Get(balls, b.id).position = m.position
                      /\ Get(balls, b.id).velocity = b.velocity

\* a ball that left through the right side with a speed in both components
C6_Witness ==
    /\ Stepped /\ ~config.boundary_bounce
    /\ \E i \in DOMAIN last.trace.moved :
           LET b == last.trace.integrated[i]
           IN /\ b.position[1] > config.world_width + b.radius
              /\ b.velocity[1] # 0 /\ b.velocity[2] # 0
              /\ b.id \in Keys(balls)

\* C7: add_ball with a caller's id that the active set or the inventory already holds
\* is rejected and changes neither; with an id in neither it returns that id and the
\* new ball is in the active set.
C7_AddBallRejectsKnownId ==
    [][last'.op = "add_ball"
         => LET c == last'.args
            IN IF c.ball_id # None /\ TheValue(c.ball_id) \in Keys(balls) \cup Keys(inventory)
               THEN balls' = balls /\ inventory' = inventory
               ELSE /\ c.ball_id # None => last'.ret = TheValue(c.ball_id)
                    /\ last'.ret \in Keys(balls')
                    /\ Get(balls', last'.ret).position = c.position
                    /\ inventory' = inventory]_vars

\* C8: remove_ball(id) returns True and removes exactly that id from the active set
\* when it is active; otherwise it returns False and changes neither set; a ball the
\* inventory holds stays there.
C8_RemoveBall ==
    [][last'.op = "remove_ball"
         => LET id == last'.args.ball_id
            IN /\ inventory' = inventory
               /\ IF id \in Keys(balls)
                  THEN /\ last'.ret = TRUE
                       /\ balls' = SelectSeq(balls, LAMBDA b : b.id # id)
                       /\ Len(balls') = Len(balls) - 1
                  ELSE /\ last'.ret = FALSE
                       /\ balls' = balls]_vars

\* remove_ball of an id that only the inventory holds has answered False
C8_Witness ==
    /\ last.op = "remove_ball" /\ last.ret = FALSE
    /\ last.args.ball_id \in Keys(inventory)

\* C9: spit_specific(id, ...) with id not in the inventory returns False and changes
\* neither set nor any ball, also when id is active.
C9_SpitSpecificMisses ==
    [][(last'.op = "spit_specific" /\ last'.args.ball_id \notin Keys(inventory))
         => /\ last'.ret = FALSE
            /\ balls' = balls
            /\ inventory' = inventory]_vars

\* spit_specific of an active id has answered False
C9_Witness ==
    /\ last.op = "spit_specific" /\ last.ret = FALSE
    /\ last.args.ball_id \in Keys(balls)
    /\ last.args.ball_id \notin Keys(inventory)

\* the velocity is the direction scaled to length speed; zero for the zero direction
IsDirectionTimesSpeed(velocity, direction, speed) ==
    LET mag2 == direction[1] * direction[1] + direction[2] * direction[2]
    IN IF mag2 = 0 THEN velocity = <<0, 0>>
       ELSE \A k \in 1..2 :
                /\ velocity[k] * velocity[k] * mag2
                       = direction[k] * direction[k] * speed * speed
                /\ velocity[k] * direction[k] * speed >= 0

\* C10: a successful spit moves exactly one id from the inventory to the active set,
\* keeps the ball's radius, mass and colour, sets its position and its velocity, and
\* leaves every other ball and the rest of the inventory as they were.
C10_SpitMovesOneBall ==
    [][(\/ last'.op = "spit_next" /\ last'.ret # None
        \/ last'.op = "spit_specific" /\ last'.ret = TRUE)
         => LET id == IF last'.op = "spit_next" THEN TheValue(last'.ret)
                                                ELSE last'.args.ball_id
                c == last'.args
            IN /\ id \in Keys(inventory)
               /\ id \in Keys(balls')
               /\ inventory' = SelectSeq(inventory, LAMBDA b : b.id # id)
               /\ Len(inventory') = Len(inventory) - 1
               /\ Get(balls', id).radius = Get(inventory, id).radius
               /\ Get(balls', id).mass = Get(inventory, id).mass
               /\ Get(balls', id).color_rgb = Get(inventory, id).color_rgb
               /\ Get(balls', id).position = c.position
               /\ IsDirectionTimesSpeed(Get(balls', id).velocity, c.direction, c.speed)
               /\ Len(balls') = Len(balls) + 1
               /\ \A i \in DOMAIN balls : balls'[i] = balls[i]]_vars

\* C11: update_suction while the suction is off changes no field of it; while it is
\* on it changes the position only; stop_suction changes the flag only; step changes
\* nothing of it; so radius, strength and capture_radius are always the value the most
\* recent start_suction that gave one gave, or the defaults 160, 1200, 28.
C11_SuctionFrame ==
    /\ [](/\ suction.radius = Override(overrides.radius, 160)
          /\ suction.strength = Override(overrides.strength, 1200)
          /\ suction.capture_radius = Override(overrides.capture_radius, 28))
    /\ [][/\ last'.op = "update_suction" =>
                 suction' = IF suction.is_active
                            THEN [suction EXCEPT !.position = last'.args.position]
                            ELSE suction
          /\ last'.op = "stop_suction" => suction' = [suction EXCEPT !.is_active = FALSE]
          /\ last'.op = "step" => suction' = suction]_vars

\* update_suction was called with the suction off, after a start_suction with overrides,
\* and for another position than the suction has
C11_Witness ==
    /\ last.op = "update_suction"
    /\ ~suction.is_active
    /\ suction.position # last.args.position
    /\ overrides.radius # None /\ overrides.strength # None /\ overrides.capture_radius # None

\* C12: a step releases no ball: released_ball_ids is empty, and every id the inventory
\* holds before a step it holds after it, with the same position, velocity and colour;
\* an id leaves the inventory only by a spit_next that returns it or a spit_specific
\* of it that returns True.
C12_StepNeverReleases ==
    [][/\ last'.op = "step" =>
              /\ last'.ret.released_ball_ids = <<>>
              /\ \A i \in DOMAIN inventory :
                     /\ inventory[i].id \in Keys(inventory')
                     /\ Get(inventory', inventory[i].id).position = inventory[i].position
                     /\ Get(inventory', inventory[i].id).velocity = inventory[i].velocity
                     /\ Get(inventory', inventory[i].id).color_rgb = inventory[i].color_rgb
       /\ \A id \in Keys(inventory) \ Keys(inventory') :
              \/ last'.op = "spit_next" /\ last'.ret = Some(id)
              \/ last'.op = "spit_specific" /\ last'.ret = TRUE /\ last'.args.ball_id = id]_vars

\* every ball of the two sets
AllBalls(active, held) == {active[i] : i \in DOMAIN active} \cup {held[i] : i \in DOMAIN held}

\* C13: when max_color_mix_factor_per_second is 0, every step returns empty mixed_pairs
\* and no add_ball, suction, spit or step call changes the colour of a ball: after the
\* call every ball has the colour it had before it, or is the ball an add_ball has
\* just made.
C13_NoMixingAtRateZero ==
    [][(/\ config.max_color_mix_factor_per_second = 0
        /\ last'.op \in {"add_ball", "start_suction", "update_suction", "stop_suction",
                         "spit_next", "spit_specific", "step"}) =>
          /\ last'.op = "step" => last'.ret.mixed_pairs = <<>>
          /\ \A b \in AllBalls(balls', inventory') :
                 \/ last'.op = "add_ball" /\ b.id = last'.ret
                 \/ \E old \in AllBalls(balls, inventory) :
                        old.id = b.id /\ old.color_rgb = b.color_rgb]_vars

\* at rate 0 a step with dt > 0 has left two overlapping balls of different colours active
C13_Witness ==
    /\ Stepped
    /\ config.max_color_mix_factor_per_second = 0
    /\ \E i, j \in DOMAIN balls :
           /\ i < j
           /\ Overlap(balls[i], balls[j])
           /\ balls[i].color_rgb # balls[j].color_rgb

\* C14: a write to what get_balls_snapshot returned (to the list, or to the position,
\* velocity, radius or colour of a Ball in it) leaves the balls of the engine as they
\* were.
C14_SnapshotIsACopy ==
    [][last'.op = "write_snapshot" => balls' = balls /\ inventory' = inventory]_vars

\* C15: every ball of the active set and of the inventory has radius > 0 and mass > 0.
C15_PositiveRadiusAndMass ==
    \A b \in AllBalls(balls, inventory) : b.radius > 0 /\ b.mass > 0

\* C16: in a step with dt > 0, captured_ball_ids holds, each once, exactly the balls
\* active at entry that after their move are within max(capture_radius, 0.8 * radius)
\* of the suction position if the suction is on, and nothing if it is off; after the
\* step no active ball is within its capture threshold when the suction is on.
C16_CapturedExactly ==
    Stepped =>
        /\ Members(last.ret.captured_ball_ids) =
               IF suction.is_active
               THEN {last.trace.moved[i].id : i \in
                        {k \in DOMAIN last.trace.moved :
                            WithinCaptureThreshold(last.trace.moved[k])}}
               ELSE {}
        /\ Cardinality(Members(last.ret.captured_ball_ids)) = Len(last.ret.captured_ball_ids)
        /\ suction.is_active => \A i \in DOMAIN balls : ~WithinCaptureThreshold(balls[i])

\* a step has captured a ball that is farther than capture_radius from the suction
\* and within 0.8 of its own radius, and has left another ball active
C16_Witness ==
    /\ Stepped /\ suction.is_active
    /\ balls # <<>>
    /\ \E i \in DOMAIN last.trace.moved :
           /\ last.trace.moved[i].id \in Members(last.ret.captured_ball_ids)
           /\ ~InCaptureRadius(last.trace.moved[i])

\* C17: after a step with dt > 0 no active ball has its centre in the delete zone,
\* edges included, and deleted_ball_ids holds, each once, exactly the balls that were
\* not captured in the step and whose centre after the move is in the zone; the radius
\* is not looked at.
C17_DeletedExactly ==
    Stepped =>
        /\ \A i \in DOMAIN balls : ~CentreInZone(balls[i])
        /\ Members(last.ret.deleted_ball_ids) =
               {last.trace.moved[i].id : i \in
                   {k \in DOMAIN last.trace.moved :
                       /\ last.trace.moved[k].id \notin Members(last.ret.captured_ball_ids)
                       /\ CentreInZone(last.trace.moved[k])}}
        /\ Cardinality(Members(last.ret.deleted_ball_ids)) = Len(last.ret.deleted_ball_ids)

\* a step has deleted a ball whose centre is on the left edge of the zone, and has left
\* active a ball whose centre is outside the zone and whose disc reaches into it
C17_Witness ==
    /\ Stepped
    /\ \E i \in DOMAIN last.trace.moved :
           /\ last.trace.moved[i].id \in Members(last.ret.deleted_ball_ids)
           /\ last.trace.moved[i].position[1] = delete_zone.x
    /\ \E i \in DOMAIN balls :
           /\ balls[i].position[1] < delete_zone.x
           /\ balls[i].position[1] + balls[i].radius > delete_zone.x
           /\ delete_zone.y <= balls[i].position[2]
           /\ balls[i].position[2] <= delete_zone.y + delete_zone.height

\* the balls a step left active after its capture phase, as they were after the move
Remaining ==
    SelectSeq(last.trace.moved, LAMBDA b : b.id \notin Members(last.ret.captured_ball_ids))

Place(id) == CHOOSE k \in DOMAIN Remaining : Remaining[k].id = id

\* the distance of the centres is at most the sum of the radii
Touching(a, b) ==
    /\ a.radius + b.radius >= 0
    /\ (a.position[1] - b.position[1]) * (a.position[1] - b.position[1])
         + (a.position[2] - b.position[2]) * (a.position[2] - b.position[2])
           <= (a.radius + b.radius) * (a.radius + b.radius)

\* C18: in a step with mix_t > 0, mixed_pairs lists exactly the pairs of balls left
\* active by the capture phase whose centres after the move are no farther apart than
\* the sum of their radii, each pair once, the earlier inserted ball first, in the
\* order of the combinations of the active set; balls the step then deletes included.
C18_MixedPairs ==
    (Stepped /\ config.max_color_mix_factor_per_second > 0) =>
        /\ {last.ret.mixed_pairs[p] : p \in DOMAIN last.ret.mixed_pairs} =
               {<<Remaining[ij[1]].id, Remaining[ij[2]].id>> : ij \in
                   {x \in (DOMAIN Remaining) \X (DOMAIN Remaining) :
                       x[1] < x[2] /\ Touching(Remaining[x[1]], Remaining[x[2]])}}
        /\ \A p, q \in DOMAIN last.ret.mixed_pairs :
               p < q =>
                   \/ Place(last.ret.mixed_pairs[p][1]) < Place(last.ret.mixed_pairs[q][1])
                   \/ /\ Place(last.ret.mixed_pairs[p][1]) = Place(last.ret.mixed_pairs[q][1])
                      /\ Place(last.ret.mixed_pairs[p][2]) < Place(last.ret.mixed_pairs[q][2])

\* a step has mixed three pairs, one of them with a ball it then deleted
C18_Witness ==
    /\ Stepped
    /\ Len(last.ret.mixed_pairs) = 3
    /\ \E p \in DOMAIN last.ret.mixed_pairs :
           last.ret.mixed_pairs[p][1] \in Members(last.ret.deleted_ball_ids)
    /\ balls # <<>>

\* C19: when a step mixes one pair, each ball of the pair gets the mix of its own colour
\* before the mix toward the other's colour before the mix, by mix_t.
C19_MixIsSymmetric ==
    (Stepped /\ Len(last.ret.mixed_pairs) = 1) =>
        \A i, j \in DOMAIN Remaining :
            (/\ <<Remaining[i].id, Remaining[j].id>> = last.ret.mixed_pairs[1]
             /\ Remaining[j].id \in Keys(balls)) =>
                /\ Get(balls, Remaining[j].id).color_rgb =
                       MixColorTowards(Remaining[j].color_rgb, Remaining[i].color_rgb,
                                       MixT(last.ret.time_advanced_s))
                /\ Remaining[i].id \in Keys(balls) =>
                       Get(balls, Remaining[i].id).color_rgb =
                           MixColorTowards(Remaining[i].color_rgb, Remaining[j].color_rgb,
                                           MixT(last.ret.time_advanced_s))

\* C20: a step conserves the balls: the active ids before it are the disjoint union of
\* the active ids after it, captured_ball_ids and deleted_ball_ids; neither list has
\* an id twice; the inventory after it is the inventory before it and the captured
\* balls, one more ball for each; and a deleted id is in neither set after the step.
C20_StepConservesBalls ==
    [][(last'.op = "step" /\ last'.ret.time_advanced_s > 0) =>
          LET captured == Members(last'.ret.captured_ball_ids)
              deleted == Members(last'.ret.deleted_ball_ids)
          IN /\ Keys(balls) = Keys(balls') \cup captured \cup deleted
             /\ Keys(balls') \cap captured = {}
             /\ Keys(balls') \cap deleted = {}
             /\ captured \cap deleted = {}
             /\ Cardinality(captured) = Len(last'.ret.captured_ball_ids)
             /\ Cardinality(deleted) = Len(last'.ret.deleted_ball_ids)
             /\ Keys(inventory') = Keys(inventory) \cup captured
             /\ Len(inventory') = Len(inventory) + Len(last'.ret.captured_ball_ids)
             /\ deleted \cap (Keys(balls') \cup Keys(inventory')) = {}]_vars

====
